---- MODULE Spec2Model ----
(***************************************************************************)
(* Model of streamlit_app.py: one browser session of the YOLOv5 detector   *)
(* front-end.  Every user interaction reruns main() from the top; a run    *)
(* blocks on GET /health (check_api_health) and on POST /detect_base64     *)
(* (call_detection_api).  The remote service and the network are the       *)
(* environment: their answers are drawn from HealthOutcomes and            *)
(* DetectOutcomes.                                                         *)
(***************************************************************************)
EXTENDS Integers, Sequences, FiniteSets, TLC

(* ---------------------------------------------------------------- bounds *)
\* longest detections list the service answers with
MaxDet == 2
\* largest total_objects the service answers with
MaxTotal == 2

(* ------------------------------------------------------------- constants *)
\* the only status code treated as success (lines 46 and 70)
HTTP_OK == 200

\* Python's None
None == "None"

(* ------------------------------------------------ values of the environment *)
\* status codes other than 200 a server may answer with
NonOkStatuses == {201, 404, 500, 503}

\* the uploaded file of a run: none, one PIL cannot open, one that opens but
\* cannot be saved as JPEG, one that opens and encodes
Files == {"none", "unreadable", "unencodable", "ok"}

\* result_image strings: "" is the empty string, "valid" decodes to an image,
\* "bad_base64" makes b64decode raise, "corrupt_image" makes Image.open raise
ImageStrings == {"", "valid", "bad_base64", "corrupt_image"}

\* A JSON object is a record with the set of keys it holds; a key that is
\* not in `keys` carries a fixed filler value that no operator reads.
Detection(keys, cls, conf, bbox) ==
    [keys |-> keys, class_name |-> cls, confidence |-> conf, bbox |-> bbox]

\* the detection entries the service answers with: complete ones, one without
\* bbox, one with a partial bbox, one without class_name, one without confidence
Detections ==
    { Detection({"class_name", "confidence", "bbox"}, "cat", 90, "full"),
      Detection({"class_name", "confidence", "bbox"}, "dog", 55, "x1_only"),
      Detection({"class_name", "confidence"}, "dog", 55, ""),
      Detection({"confidence", "bbox"}, "", 90, "full"),
      Detection({"class_name"}, "cat", 0, "") }

DetectionLists == UNION { [1..n -> Detections] : n \in 0..MaxDet }

\* total_objects values: an integer, or JSON null
TotalValues == [null : {FALSE}, n : 0..MaxTotal] \cup [null : {TRUE}, n : {0}]

Body(keys, img, dets, total) ==
    [keys |-> keys, result_image |-> img, detections |-> dets, total_objects |-> total]

EmptyBody == Body({}, "", <<>>, [null |-> FALSE, n |-> 0])

\* every JSON object the detection endpoint may answer with: each of the three
\* keys is present or absent, an absent key carrying the filler
JsonBodies ==
    { Body({"result_image" : x \in hi} \cup {"detections" : x \in hd}
               \cup {"total_objects" : x \in ht},
           IF hi = {} THEN "" ELSE i,
           IF hd = {} THEN <<>> ELSE d,
           IF ht = {} THEN [null |-> FALSE, n |-> 0] ELSE t) :
        hi \in SUBSET {1}, hd \in SUBSET {1}, ht \in SUBSET {1},
        i \in ImageStrings, d \in DetectionLists, t \in TotalValues }

\* what POST /detect_base64 may end in: a response (a 200 whose body parses,
\* a 200 whose body makes response.json() raise, another status) or an
\* exception raised by requests.post
Outcome(kind, status, json, body) ==
    [kind |-> kind, status |-> status, json |-> json, body |-> body]

NoOutcome == Outcome("none", 0, "ok", EmptyBody)

DetectOutcomes ==
    { Outcome("response", HTTP_OK, "ok", b) : b \in JsonBodies }
    \cup { Outcome("response", HTTP_OK, j, EmptyBody) :
              j \in {"InvalidJSONError", "ValueError"} }
    \cup { Outcome("response", s, "ok", EmptyBody) : s \in NonOkStatuses }
    \cup { Outcome(k, 0, "ok", EmptyBody) :
              k \in {"ReadTimeout", "ConnectTimeout", "ConnectionError",
                     "TooManyRedirects", "RuntimeError"} }

\* what GET /health may end in; body names the JSON of a 200 answer
HealthBodies == {"loaded", "not_loaded", "no_field", "not_json", "not_object"}

HealthOutcome(kind, status, body) == [kind |-> kind, status |-> status, body |-> body]

NoHealth == HealthOutcome("none", 0, "")

HealthOutcomes ==
    { HealthOutcome("response", HTTP_OK, b) : b \in HealthBodies }
    \cup { HealthOutcome("response", s, "") : s \in NonOkStatuses }
    \cup { HealthOutcome(k, 0, "") :
              k \in {"ReadTimeout", "ConnectTimeout", "ConnectionError", "RuntimeError"} }

(* --------------------------------------------------- exception classes *)
\* the classes an exception is an instance of (requests.exceptions and builtins)
Classes(exc) ==
    CASE exc = "ReadTimeout"      -> {"ReadTimeout", "Timeout", "RequestException", "Exception"}
      [] exc = "ConnectTimeout"   -> {"ConnectTimeout", "ConnectionError", "Timeout",
                                      "RequestException", "Exception"}
      [] exc = "ConnectionError"  -> {"ConnectionError", "RequestException", "Exception"}
      [] exc = "TooManyRedirects" -> {"TooManyRedirects", "RequestException", "Exception"}
      [] exc = "InvalidJSONError" -> {"InvalidJSONError", "RequestException", "Exception"}
      [] OTHER                    -> {exc, "Exception"}

(* -------------------------------------------------------- page elements *)
\* one call of st.error / st.warning / st.success / st.info / st.write /
\* st.image / st.subheader / st.caption: the widget, what it shows, a number
Msg(t, k, n) == [t |-> t, k |-> k, n |-> n]

Errors(o) == { o[i].k : i \in { j \in 1..Len(o) : o[j].t = "error" } }

\* the error kind of the taxonomy a message of the detection path reports
KindOf(k) ==
    CASE k = "ConversionError" -> "EncodingFailed"
      [] k = "DisplayError"    -> "DecodingFailed"
      [] k = "ApiTimeout"      -> "Timeout"
      [] k = "ApiConnection"   -> "ConnectionFailed"
      [] k = "ApiStatus"       -> "ServiceError"
      [] k = "ApiDetails"      -> "ServiceError"
      [] k = "ApiRequest"      -> "Unknown"
      [] k = "ApiUnexpected"   -> "Unknown"
      [] OTHER                 -> "none"

(* ------------------------------------------------------ image_to_base64 *)
\* image.save(format="JPEG") raises for a file that cannot be encoded; the
\* handler reports it and returns None
image_to_base64(image) ==
    IF image = "unencodable"
    THEN [value |-> None, out |-> <<Msg("error", "ConversionError", 0)>>]
    ELSE [value |-> "base64", out |-> <<>>]

(* --------------------------------------------------- call_detection_api *)
\* what call_detection_api returns: None, or the dict response.json() gave
RetNone == [none |-> TRUE, body |-> EmptyBody]
Ret(body) == [none |-> FALSE, body |-> body]

\* faulty variant: the `if not image_base64: return None` of lines 32-33 is missing
call_detection_api_begin_unchecked(image) ==
    [sent |-> 1, result |-> RetNone, out |-> image_to_base64(image).out]

\* lines 30-44: encode, give up without a request when encoding failed,
\* else issue the one POST (sent = number of requests.post calls made)
call_detection_api_begin(image) ==
    LET enc == image_to_base64(image)
    IN  IF enc.value = None
        THEN [sent |-> 0, result |-> RetNone, out |-> enc.out]
        ELSE [sent |-> 1, result |-> RetNone, out |-> enc.out]

\* faulty variant: every status below 400 is taken as success
api_response_lax(o) ==
    IF o.status < 400
    THEN IF o.json = "ok"
         THEN [result |-> Ret(o.body), out |-> <<>>, exc |-> None]
         ELSE [result |-> RetNone, out |-> <<>>, exc |-> o.json]
    ELSE [result |-> RetNone, exc |-> None,
          out |-> <<Msg("error", "ApiStatus", o.status), Msg("error", "ApiDetails", 0)>>]

\* lines 46-51: a 200 returns response.json() (which may raise), any other
\* status reports the code and the response text and returns None
api_response(o) ==
    IF o.status = HTTP_OK
    THEN IF o.json = "ok"
         THEN [result |-> Ret(o.body), out |-> <<>>, exc |-> None]
         ELSE [result |-> RetNone, out |-> <<>>, exc |-> o.json]
    ELSE [result |-> RetNone, exc |-> None,
          out |-> <<Msg("error", "ApiStatus", o.status), Msg("error", "ApiDetails", 0)>>]

\* faulty variant: the `except requests.exceptions.ConnectionError` clause is missing
api_except_no_connection_clause(exc) ==
    [result |-> RetNone, sent |-> 0, raised |-> None,
     out |-> IF "Timeout" \in Classes(exc) THEN <<Msg("error", "ApiTimeout", 0)>>
             ELSE IF "RequestException" \in Classes(exc)
                  THEN <<Msg("error", "ApiRequest", 0)>>
                  ELSE <<Msg("error", "ApiUnexpected", 0)>>]

\* faulty variant: the timeout handler sends the request once more
api_except_retry(exc) ==
    [result |-> RetNone, raised |-> None,
     sent |-> IF "Timeout" \in Classes(exc) THEN 1 ELSE 0,
     out |-> IF "Timeout" \in Classes(exc) THEN <<Msg("error", "ApiTimeout", 0)>>
             ELSE IF "ConnectionError" \in Classes(exc)
                  THEN <<Msg("error", "ApiConnection", 0)>>
                  ELSE IF "RequestException" \in Classes(exc)
                       THEN <<Msg("error", "ApiRequest", 0)>>
                       ELSE <<Msg("error", "ApiUnexpected", 0)>>]

\* lines 53-64: the except clauses in their order; the first whose class the
\* exception is an instance of reports and returns None.  No clause sends a
\* request (sent = 0) and the last one catches every Exception (raised = None).
api_except(exc) ==
    [result |-> RetNone, sent |-> 0, raised |-> None,
     out |-> IF "Timeout" \in Classes(exc) THEN <<Msg("error", "ApiTimeout", 0)>>
             ELSE IF "ConnectionError" \in Classes(exc)
                  THEN <<Msg("error", "ApiConnection", 0)>>
                  ELSE IF "RequestException" \in Classes(exc)
                       THEN <<Msg("error", "ApiRequest", 0)>>
                       ELSE <<Msg("error", "ApiUnexpected", 0)>>]

\* lines 40-64 from the moment requests.post returns or raises
call_detection_api_end(o) ==
    LET r == api_response(o)
        exc == IF o.kind = "response" THEN r.exc ELSE o.kind
        h == api_except(exc)
    IN  IF exc = None
        THEN [result |-> r.result, out |-> r.out, sent |-> 0, raised |-> None]
        ELSE h

(* ----------------------------------------------------- check_api_health *)
\* faulty variant: a 200 answer counts as healthy whatever model_loaded says
health_try_any_200(o) ==
    IF o.status = HTTP_OK
    THEN CASE o.body = "not_json"   -> [ret |-> FALSE, out |-> <<>>, exc |-> "JSONDecodeError"]
           [] o.body = "not_object" -> [ret |-> FALSE, out |-> <<>>, exc |-> "AttributeError"]
           [] OTHER -> [ret |-> TRUE, exc |-> None,
                        out |-> <<Msg("success", "HealthOk", 0)>>]
    ELSE [ret |-> FALSE, exc |-> None,
          out |-> <<Msg("error", "HealthStatus", o.status)>>]

\* lines 70-80: a 200 whose JSON object has a truthy model_loaded gives the
\* success message and True, another 200 object the warning and False, any
\* other status the error and False; json() raises on a body that is not
\* JSON and .get raises on JSON that is not an object
health_try(o) ==
    IF o.status = HTTP_OK
    THEN CASE o.body = "not_json"   -> [ret |-> FALSE, out |-> <<>>, exc |-> "JSONDecodeError"]
           [] o.body = "not_object" -> [ret |-> FALSE, out |-> <<>>, exc |-> "AttributeError"]
           [] o.body = "loaded"     -> [ret |-> TRUE, exc |-> None,
                                        out |-> <<Msg("success", "HealthOk", 0)>>]
           [] OTHER                 -> [ret |-> FALSE, exc |-> None,
                                        out |-> <<Msg("warning", "ModelNotLoaded", 0)>>]
    ELSE [ret |-> FALSE, exc |-> None,
          out |-> <<Msg("error", "HealthStatus", o.status)>>]

\* faulty variant: only requests.exceptions.Timeout is caught
health_except_timeout_only(exc) ==
    IF "Timeout" \in Classes(exc)
    THEN [ret |-> FALSE, raised |-> None, out |-> <<Msg("error", "HealthTimeout", 0)>>]
    ELSE [ret |-> FALSE, raised |-> exc, out |-> <<>>]

\* lines 81-86: Timeout, then every other Exception; both report and return False
health_except(exc) ==
    IF "Timeout" \in Classes(exc)
    THEN [ret |-> FALSE, raised |-> None, out |-> <<Msg("error", "HealthTimeout", 0)>>]
    ELSE [ret |-> FALSE, raised |-> None, out |-> <<Msg("error", "HealthConnect", 0)>>]

\* lines 66-86 from the moment requests.get returns or raises
check_api_health(o) ==
    LET r == health_try(o)
        exc == IF o.kind = "response" THEN r.exc ELSE o.kind
    IN  IF exc = None
        THEN [ret |-> r.ret, out |-> r.out, raised |-> None]
        ELSE health_except(exc)

(* ------------------------------------------------------ main: rendering *)
\* a Python dict is truthy when it holds a key
Truthy(body) == body.keys # {}

\* faulty variant: the try/except of lines 134-139 is missing, so a decoding failure
\* leaves the block
render_result_image_unguarded(body) ==
    LET img == IF "result_image" \in body.keys THEN body.result_image ELSE None
        head == <<Msg("subheader", "Result", 0)>>
    IN  IF img \in {None, ""} THEN [out |-> head, exc |-> None]
        ELSE IF img = "valid"
             THEN [out |-> head \o <<Msg("image", "result", 0)>>, exc |-> None]
             ELSE [out |-> head, exc |-> "DecodeError"]

\* lines 129-139: the result column; a truthy result_image is decoded and
\* shown; b64decode or Image.open raising is caught at line 138 and reported
\* in the image's place, so nothing leaves the block (exc = None)
render_result_image(body) ==
    LET img == IF "result_image" \in body.keys THEN body.result_image ELSE None
        head == <<Msg("subheader", "Result", 0)>>
    IN  IF img \in {None, ""} THEN [out |-> head, exc |-> None]
        ELSE IF img = "valid"
             THEN [out |-> head \o <<Msg("image", "result", 0)>>, exc |-> None]
             ELSE [out |-> head \o <<Msg("error", "DisplayError", 0)>>, exc |-> None]

\* lines 150-160 for the entries from position i on: the index, then
\* detection['confidence'] and detection['class_name'] (KeyError when the
\* key is missing), then the bbox caption when bbox is a non-empty dict
RECURSIVE render_rows(_, _)
render_rows(dets, i) ==
    IF i > Len(dets) THEN [out |-> <<>>, exc |-> None]
    ELSE LET d == dets[i]
             idx == <<Msg("write", "index", i)>>
         IN  IF ~ ({"confidence", "class_name"} \subseteq d.keys)
             THEN [out |-> idx, exc |-> "KeyError"]
             ELSE LET bbox == IF "bbox" \in d.keys THEN d.bbox ELSE ""
                      row == idx \o <<Msg("write", d.class_name, d.confidence)>> \o
                             (IF bbox # "" THEN <<Msg("caption", bbox, i)>> ELSE <<>>)
                      rest == render_rows(dets, i + 1)
                  IN  [out |-> row \o rest.out, exc |-> rest.exc]

\* faulty variant: the list is shown whenever total_objects is not negative
render_detections_geq(body) ==
    LET detections == IF "detections" \in body.keys THEN body.detections ELSE <<>>
        total == IF "total_objects" \in body.keys THEN body.total_objects
                                                   ELSE [null |-> FALSE, n |-> 0]
        rows == render_rows(detections, 1)
    IN  IF total.null THEN [out |-> <<>>, exc |-> "TypeError"]
        ELSE IF total.n >= 0
             THEN [out |-> <<Msg("subheader", "Found", total.n)>> \o rows.out,
                   exc |-> rows.exc]
             ELSE [out |-> <<Msg("info", "NoObjects", 0)>>, exc |-> None]

\* lines 142-162: the list is shown under the total_objects header when
\* total_objects > 0, else the "no objects" note; None > 0 is a TypeError
render_detections(body) ==
    LET detections == IF "detections" \in body.keys THEN body.detections ELSE <<>>
        total == IF "total_objects" \in body.keys THEN body.total_objects
                                                   ELSE [null |-> FALSE, n |-> 0]
        rows == render_rows(detections, 1)
    IN  IF total.null THEN [out |-> <<>>, exc |-> "TypeError"]
        ELSE IF total.n > 0
             THEN [out |-> <<Msg("subheader", "Found", total.n)>> \o rows.out,
                   exc |-> rows.exc]
             ELSE [out |-> <<Msg("info", "NoObjects", 0)>>, exc |-> None]

\* lines 127-168 once call_detection_api is over: r is what it returned,
\* raised the exception it let through (None: none).  A truthy result is
\* rendered, a falsy one is reported as no result; whatever is raised on the
\* way lands in the handler of line 167.
main_after_call(r, raised) ==
    IF raised # None THEN <<Msg("error", "ProcessingError", 0)>>
    ELSE IF r.none \/ ~ Truthy(r.body) THEN <<Msg("error", "NoResult", 0)>>
    ELSE LET g == render_result_image(r.body)
             d == render_detections(r.body)
         IN  IF g.exc # None THEN g.out \o <<Msg("error", "ProcessingError", 0)>>
             ELSE g.out \o d.out \o
                  (IF d.exc # None THEN <<Msg("error", "ProcessingError", 0)>> ELSE <<>>)

(* ------------------------------------------------------------- state *)
VARIABLES
    pc,          \* where the run of main() stands: "idle" (over, the page waits for
                 \* the user), "health_sidebar" (line 96, GET in flight),
                 \* "health_auto" (line 176, GET in flight), "post" (line 40, POST in flight)
    file,        \* uploaded_file of this run
    btn,         \* the button whose click started this run: "none", "check", "analyze"
    out,         \* the elements this run has put on the page, in order
    posts,       \* the requests.post calls this run has made
    inflight,    \* the POST requests sent and not yet answered
    resp,        \* how the POST of this run ended (NoOutcome: not yet, or none sent)
    result,      \* what call_detection_api returned
    hresp,       \* how the last GET /health of this run ended
    health_ret,  \* what the last check_api_health of this run returned
    healthLog,   \* history: the (outcome class, returned value) pairs of all health checks
    uncaught     \* the exception that left main() in this run (None: none)

vars == <<pc, file, btn, out, posts, inflight, resp, result, hresp, health_ret,
          healthLog, uncaught>>

Buttons == {"none", "check", "analyze"}

\* the three outcomes of a health check the mapping names, "other" for the rest
\* (a 200 whose body is not a JSON object with model_loaded, another exception)
HealthClass(o) ==
    IF o.kind = "response"
    THEN IF o.status # HTTP_OK THEN "unreachable"
         ELSE IF o.body = "loaded" THEN "loaded"
         ELSE IF o.body = "not_loaded" THEN "not_loaded"
         ELSE "other"
    ELSE IF {"Timeout", "ConnectionError"} \cap Classes(o.kind) # {} THEN "unreachable"
    ELSE "other"

Init ==
    /\ pc = "idle"
    /\ file = "none"
    /\ btn = "none"
    /\ out = <<>>
    /\ posts = 0
    /\ inflight = 0
    /\ resp = NoOutcome
    /\ result = RetNone
    /\ hresp = NoHealth
    /\ health_ret = FALSE
    /\ healthLog = {}
    /\ uncaught = None

\* lines 105-180 of a run with uploaded file f and clicked button b, o being
\* what the sidebar has put on the page: without a file the note and the
\* automatic health check; a file PIL cannot open ends in the handler of line
\* 167; else the original is shown and, when the analyse button was clicked,
\* call_detection_api starts.
main_body(f, b, o) ==
    LET shown == o \o <<Msg("image", "original", 0)>>
        c == call_detection_api_begin(f)
        calls == f \in {"unencodable", "ok"} /\ b = "analyze"
    IN  /\ pc' = IF f = "none" THEN "health_auto"
                 ELSE IF calls /\ c.sent > 0 THEN "post" ELSE "idle"
        /\ out' = IF f = "none"
                  THEN o \o <<Msg("info", "Upload", 0), Msg("write", "Checking", 0)>>
                  ELSE IF f = "unreadable" THEN o \o <<Msg("error", "ProcessingError", 0)>>
                  ELSE IF ~ calls THEN shown
                  ELSE IF c.sent > 0 THEN shown \o c.out
                  ELSE shown \o c.out \o main_after_call(c.result, None)
        /\ posts' = IF calls THEN c.sent ELSE 0
        /\ inflight' = IF calls THEN c.sent ELSE 0
        /\ result' = RetNone

\* A user interaction reruns main() with uploaded file f and button b (lines
\* 88-110).  The analyse button exists only on a page that shows an opened
\* image.  A click on "check" calls check_api_health in the sidebar first.
main_run(f, b) ==
    /\ pc = "idle"
    /\ b = "analyze" => f \in {"unencodable", "ok"}
    /\ file' = f
    /\ btn' = b
    /\ resp' = NoOutcome
    /\ hresp' = NoHealth
    /\ health_ret' = FALSE
    /\ uncaught' = None
    /\ UNCHANGED healthLog
    /\ IF b = "check"
       THEN /\ pc' = "health_sidebar"
            /\ out' = <<>>
            /\ posts' = 0
            /\ inflight' = 0
            /\ result' = RetNone
       ELSE main_body(f, b, <<>>)

\* GET /health ends in o: check_api_health returns (or lets an exception
\* through, which ends the run) and the caller goes on: after line 96 with
\* the rest of main(), after line 176 with lines 177-180.
health_returns(o) ==
    /\ pc \in {"health_sidebar", "health_auto"}
    /\ LET h == check_api_health(o)
       IN  /\ hresp' = o
           /\ health_ret' = h.ret
           /\ uncaught' = h.raised
           /\ healthLog' = IF h.raised = None
                           THEN healthLog \cup {[cls |-> HealthClass(o), ret |-> h.ret]}
                           ELSE healthLog
           /\ IF h.raised # None
              THEN /\ pc' = "idle"
                   /\ out' = out \o h.out
                   /\ UNCHANGED <<posts, inflight, result>>
              ELSE IF pc = "health_sidebar"
                   THEN main_body(file, btn, out \o h.out)
                   ELSE /\ pc' = "idle"
                        /\ out' = out \o h.out \o
                                  <<Msg("write", IF h.ret THEN "Ready" ELSE "Unavailable", 0)>>
                        /\ UNCHANGED <<posts, inflight, result>>
    /\ UNCHANGED <<file, btn, resp>>

\* POST /detect_base64 ends in o: call_detection_api returns and main()
\* renders what it got (lines 46-64, then 127-168).
detect_returns(o) ==
    /\ pc = "post"
    /\ LET r == call_detection_api_end(o)
       IN  /\ resp' = o
           /\ result' = r.result
           /\ posts' = posts + r.sent
           /\ inflight' = inflight - 1 + r.sent
           /\ pc' = IF r.sent > 0 THEN "post" ELSE "idle"
           /\ out' = IF r.sent > 0 THEN out \o r.out
                     ELSE out \o r.out \o main_after_call(r.result, r.raised)
    /\ UNCHANGED <<file, btn, hresp, health_ret, healthLog, uncaught>>

Next ==
    \/ \E f \in Files, b \in Buttons : main_run(f, b)
    \/ \E o \in HealthOutcomes : health_returns(o)
    \/ \E o \in DetectOutcomes : detect_returns(o)

Spec == Init /\ [][Next]_vars

(* ------------------------------------------------- vocabulary of the claims *)
Has(o, m) == \E i \in 1..Len(o) : o[i] = m

\* the analyse run is over and its POST was answered with status 200 and a
\* body that parsed as JSON
Done200 ==
    /\ pc = "idle"
    /\ btn = "analyze"
    /\ resp.kind = "response"
    /\ resp.status = HTTP_OK
    /\ resp.json = "ok"

WellFormed(d) == {"class_name", "confidence"} \subseteq d.keys

IsRow(m) == m.t = "write" /\ m.k # "index"

\* the detection lines on the page, in page order
RowsOf(o) == SelectSeq(o, IsRow)

\* the lines a list of well-formed detections is to give, in list order
RowsFor(dets) == [i \in 1..Len(dets) |-> Msg("write", dets[i].class_name, dets[i].confidence)]

IsImagePart(m) ==
    \/ m.t = "image"
    \/ m = Msg("error", "DisplayError", 0)

IsNotImagePart(m) == ~ IsImagePart(m)

\* the page without the image renders and the report of a failed decode
SansImage(o) == SelectSeq(o, IsNotImagePart)

\* the page of an analyse run whose POST is answered with 200 and JSON body b
PageFor(b) ==
    LET r == call_detection_api_end(Outcome("response", HTTP_OK, "ok", b))
    IN  <<Msg("image", "original", 0)>> \o r.out \o main_after_call(r.result, r.raised)

WithImage(b, img) == Body(b.keys \cup {"result_image"}, img, b.detections, b.total_objects)

WithoutImage(b) == Body(b.keys \ {"result_image"}, "", b.detections, b.total_objects)

Malformed(b) == "result_image" \in b.keys /\ b.result_image \in {"bad_base64", "corrupt_image"}

\* the error kinds of the taxonomy the page reports
Kinds(o) == { KindOf(k) : k \in Errors(o) } \ {"none"}

IsHealthMsg(m) ==
    m.k \in {"HealthOk", "ModelNotLoaded", "HealthStatus", "HealthTimeout", "HealthConnect"}

HealthMsgs(o) == SelectSeq(o, IsHealthMsg)

\* the widget (success, warning, error) of the last health message on the page
LastHealthLevel(o) ==
    IF HealthMsgs(o) = <<>> THEN "none" ELSE HealthMsgs(o)[Len(HealthMsgs(o))].t

(* ---------------------------------------------------------------- claims *)

\* C1: for every 200 response whose detections list is non-empty (entries
\* well formed, total_objects an integer or missing), every detection is on
\* the page, in order, whatever total_objects says.
C1_DetectionsRenderedWhateverTotal ==
    ( /\ Done200
      /\ "detections" \in resp.body.keys
      /\ resp.body.detections # <<>>
      /\ \A i \in 1..Len(resp.body.detections) : WellFormed(resp.body.detections[i])
      /\ ~ resp.body.total_objects.null )
    => RowsOf(out) = RowsFor(resp.body.detections)

\* C2: a 200 response whose result_image is malformed base64 or corrupt image
\* bytes does not abort the run: no exception leaves main, the annotated image
\* is not on the page, the decode failure is reported, and the rest of the page
\* is what a valid result_image gives and, for a response that carries a
\* detections list, what an absent result_image gives.
C2_BadImageKeepsDetections ==
    (Done200 /\ Malformed(resp.body))
    => /\ uncaught = None
       /\ ~ Has(out, Msg("image", "result", 0))
       /\ Has(out, Msg("error", "DisplayError", 0))
       /\ ~ result.none /\ result.body = resp.body
       /\ SansImage(out) = SansImage(PageFor(WithImage(resp.body, "valid")))
       /\ "detections" \in resp.body.keys
             => SansImage(out) = SansImage(PageFor(WithoutImage(resp.body)))

C2_Witness ==
    /\ Done200
    /\ resp.body.result_image = "bad_base64"
    /\ Len(resp.body.detections) = 2
    /\ Len(RowsOf(out)) = 2

\* C3 as stated: the value check_api_health returns tells the three outcomes
\* apart (loaded, reachable but not loaded, unreachable): two checks of
\* different outcomes never return the same value.
C3_ReturnDistinguishesOutcomes ==
    \A p \in healthLog, q \in healthLog :
        (p.cls # "other" /\ q.cls # "other" /\ p.cls # q.cls) => p.ret # q.ret

\* C3 amended: check_api_health returns one boolean, True exactly for a 200
\* with model_loaded true and False for a 200 with model_loaded false as for
\* every non-200 status, timeout and connection failure; what tells the three
\* outcomes apart is the message shown (success, warning, error), and the
\* caller of line 176 writes "ready" exactly when True came back.
C3_ReturnIsLoadedFlag ==
    /\ \A p \in healthLog : p.cls # "other" => (p.ret <=> p.cls = "loaded")
    /\ (hresp.kind # "none" /\ HealthClass(hresp) # "other")
       => /\ health_ret <=> HealthClass(hresp) = "loaded"
          /\ LastHealthLevel(out) =
                CASE HealthClass(hresp) = "loaded"     -> "success"
                  [] HealthClass(hresp) = "not_loaded" -> "warning"
                  [] OTHER                             -> "error"
          /\ (pc = "idle" /\ file = "none")
                => Has(out, Msg("write", "Ready", 0)) = health_ret

C3_Witness ==
    /\ [cls |-> "not_loaded", ret |-> FALSE] \in healthLog
    /\ [cls |-> "unreachable", ret |-> FALSE] \in healthLog
    /\ [cls |-> "loaded", ret |-> TRUE] \in healthLog
    /\ pc = "idle" /\ file = "none" /\ HealthClass(hresp) = "not_loaded"

\* C4: check_api_health never raises: however GET /health ends, no exception
\* leaves the run, a status message is on the page, and the caller goes on
\* (the sidebar caller with the rest of main, the caller of line 176 with its
\* closing line).
C4_HealthNeverRaises ==
    /\ uncaught = None
    /\ hresp.kind # "none"
       => /\ HealthMsgs(out) # <<>>
          /\ (pc = "idle" /\ file = "none")
                => out[Len(out)] \in {Msg("write", "Ready", 0), Msg("write", "Unavailable", 0)}
          /\ (pc = "idle" /\ file \in {"unencodable", "ok"})
                => out[Len(out)] = Msg("image", "original", 0)
          /\ (pc = "idle" /\ file = "unreadable")
                => out[Len(out)] = Msg("error", "ProcessingError", 0)

C4_Witness ==
    /\ pc = "idle"
    /\ btn = "check"
    /\ file = "none"
    /\ hresp.body = "not_json"
    /\ Len(HealthMsgs(out)) = 2
    /\ out[Len(out)] = Msg("write", "Unavailable", 0)

\* an element that lines 129-162 put on the page: the result column, the
\* objects header, a detection line, a bbox caption, the "no objects" note
IsResultPart(m) ==
    \/ m.t \in {"subheader", "caption", "info"}
    \/ m.t = "write"
    \/ m = Msg("image", "result", 0)
    \/ m = Msg("error", "DisplayError", 0)

\* C5: a POST answered with a status other than 200 ends in a ServiceError
\* report carrying that status and the response text; call_detection_api
\* returns None and nothing of the result (image, header, detection lines,
\* "no objects" note) is rendered.
C5_Non200IsServiceError ==
    (pc = "idle" /\ resp.kind = "response" /\ resp.status # HTTP_OK)
    => /\ Has(out, Msg("error", "ApiStatus", resp.status))
       /\ Has(out, Msg("error", "ApiDetails", 0))
       /\ Kinds(out) = {"ServiceError"}
       /\ result = RetNone
       /\ SelectSeq(out, IsResultPart) = <<>>

C5_Witness ==
    /\ pc = "idle"
    /\ resp.kind = "response"
    /\ resp.status = 500
    /\ Has(out, Msg("error", "ApiStatus", 500))
    /\ Has(out, Msg("error", "NoResult", 0))

\* the POST of the run failed in transport
TransportFailed == resp.kind \notin {"none", "response"}

\* the analyse run gave up at encoding
EncodingFailed == pc = "idle" /\ btn = "analyze" /\ file = "unencodable"

\* the 200 body parsed and the rendering loop reached an entry without
\* class_name or confidence
BadEntryReached ==
    /\ Done200
    /\ "detections" \in resp.body.keys
    /\ "total_objects" \in resp.body.keys
    /\ ~ resp.body.total_objects.null
    /\ resp.body.total_objects.n > 0
    /\ \E i \in 1..Len(resp.body.detections) : ~ WellFormed(resp.body.detections[i])

\* C6: every failure of the detection path ends in an error message on the
\* page and none leaves main: an encoding failure, a timeout (reported as
\* Timeout), a failure to connect (ConnectionFailed), any other transport
\* failure (Unknown), a non-200 status (ServiceError), a 200 body that is not
\* JSON (Unknown), an entry without class_name or confidence.  A failed call
\* reports exactly one kind.
C6_FailuresCaughtAndClassified ==
    /\ uncaught = None
    /\ EncodingFailed => Kinds(out) = {"EncodingFailed"}
    /\ (pc = "idle" /\ TransportFailed /\ "Timeout" \in Classes(resp.kind))
          => Kinds(out) = {"Timeout"}
    /\ (pc = "idle" /\ TransportFailed /\ "Timeout" \notin Classes(resp.kind)
             /\ "ConnectionError" \in Classes(resp.kind))
          => Kinds(out) = {"ConnectionFailed"}
    /\ (pc = "idle" /\ TransportFailed
             /\ {"Timeout", "ConnectionError"} \cap Classes(resp.kind) = {})
          => Kinds(out) = {"Unknown"}
    /\ (pc = "idle" /\ resp.kind = "response" /\ resp.status # HTTP_OK)
          => Kinds(out) = {"ServiceError"}
    /\ (pc = "idle" /\ resp.kind = "response" /\ resp.status = HTTP_OK
             /\ resp.json # "ok")
          => Kinds(out) = {"Unknown"}
    /\ (EncodingFailed \/ (pc = "idle" /\ (TransportFailed \/ resp.kind = "response")
                              /\ ~ Done200))
          => result = RetNone /\ Has(out, Msg("error", "NoResult", 0))
    /\ BadEntryReached => Has(out, Msg("error", "ProcessingError", 0))

C6_Witness ==
    /\ pc = "idle"
    /\ resp.kind = "ConnectionError"
    /\ Has(out, Msg("error", "ApiConnection", 0))
    /\ Has(out, Msg("error", "NoResult", 0))

\* C7: one analyse click makes at most one POST: no more than one request
\* is ever in flight, and once the POST has ended (in a failure or not) the
\* run is over with exactly one request made and none in flight, until the
\* user starts a new run.
C7_OnePostPerAction ==
    /\ posts <= 1
    /\ inflight <= 1
    /\ (pc = "post") <=> (inflight = 1)
    /\ resp.kind # "none" => (pc = "idle" /\ posts = 1 /\ inflight = 0)

C7_Witness ==
    /\ pc = "idle"
    /\ resp.kind = "ReadTimeout"
    /\ posts = 1
    /\ inflight = 0

\* the 200 body holds total_objects = 0 and detections = []
ZeroDetections ==
    /\ Done200
    /\ {"detections", "total_objects"} \subseteq resp.body.keys
    /\ resp.body.detections = <<>>
    /\ resp.body.total_objects = [null |-> FALSE, n |-> 0]

\* C8 as stated: a 200 response with total_objects = 0 and detections = []
\* gives the "no objects found" note and no error message.
C8_ZeroDetectionsNoError ==
    ZeroDetections => (Has(out, Msg("info", "NoObjects", 0)) /\ Errors(out) = {})

\* C8 amended: a 200 response with total_objects = 0 and detections = []
\* gives the "no objects found" note, no objects header and no detection line;
\* the only error message it can give is the report of a result_image that
\* failed to decode, given exactly when result_image is malformed.
C8_ZeroDetectionsOnlyDecodeError ==
    ZeroDetections
    => /\ Has(out, Msg("info", "NoObjects", 0))
       /\ RowsOf(out) = <<>>
       /\ ~ Has(out, Msg("subheader", "Found", 0))
       /\ Errors(out) = IF Malformed(resp.body) THEN {"DisplayError"} ELSE {}

C8_Witness ==
    /\ ZeroDetections
    /\ resp.body.result_image = "valid"
    /\ Has(out, Msg("info", "NoObjects", 0))
    /\ Errors(out) = {}

\* C9: every 200 whose body parses as JSON is a success: call_detection_api
\* returns the parsed body, the result column is rendered, and no failure to
\* obtain a result is reported.
C9_Every200JsonIsSuccess ==
    Done200
    => /\ result = Ret(resp.body)
       /\ Has(out, Msg("subheader", "Result", 0))
       /\ ~ Has(out, Msg("error", "NoResult", 0))

\* C10: when encoding the uploaded image fails the run makes no POST: the
\* failure is on the page, call_detection_api returns None, and no request
\* is or was in flight.
C10_EncodingFailureSendsNothing ==
    (btn = "analyze" /\ file = "unencodable")
    => /\ pc = "idle"
       /\ posts = 0
       /\ inflight = 0
       /\ resp = NoOutcome
       /\ result = RetNone
       /\ Has(out, Msg("error", "ConversionError", 0))

C10_Witness ==
    /\ btn = "analyze"
    /\ file = "unencodable"
    /\ pc = "idle"
    /\ out = <<Msg("image", "original", 0), Msg("error", "ConversionError", 0),
               Msg("error", "NoResult", 0)>>

====
